---- MODULE Spec2Model ----
(***************************************************************************)
(* Model of package ackp, key_identity.go: the IdentityKey variant store,  *)
(* its constructor NewIdentityKey, the public and private encoders         *)
(* PubToPKIX / PrivToPKIX and the persistence adapters ToKeyFiles /        *)
(* FromKeyFiles.                                                           *)
(*                                                                         *)
(* Byte strings ([]byte) are sequences of strings.  Every conversion       *)
(* (marshal, compress, base64, AEAD, PEM) prepends its own tag to its      *)
(* input, so that each one is injective, none is the identity, and the     *)
(* inverse conversions can tell them apart.  An io.Writer is the sequence  *)
(* of the byte strings written to it, one element per successful Write.    *)
(***************************************************************************)
EXTENDS Integers, Sequences, FiniteSets, TLC

VARIABLES ident, fs, ret

vars == <<ident, fs, ret>>

(* ------------------------------ bounds -------------------------------- *)

\* number of distinct keypairs a generator can produce, per algorithm
MaxKey == 2

\* number of distinct nonce/salt values rand.Reader can yield
MaxNonce == 1

(* ----------------------------- constants ------------------------------ *)

KEYRSA == 0
KEYECDSA == 1
KEYEC25519 == 2

\* the keytype arguments tried: the three known tags and one on each side
KeyTypeInputs == (KEYRSA - 1)..(KEYEC25519 + 1)

Keys == 1..MaxKey

Nonces == {"n" \o ToString(n) : n \in 1..MaxNonce}

Passwords == {"correct-horse", "wrong-password"}

(* --------------------------- key material ----------------------------- *)

\* a nil *rsa.PrivateKey / *ecdsa.PrivateKey / *Ed25519PrivateKey
NilKey == [priv |-> <<>>, pub |-> <<>>]

\* keypair number k of algorithm alg: secret half and public half
\* (for Ed25519 the two raw byte arrays Priv and Pub)
KeyMaterial(alg, k) ==
    IF alg = "ec25519"
    THEN [priv |-> <<"s" \o ToString(k)>>, pub |-> <<"p" \o ToString(k)>>]
    ELSE [priv |-> <<alg, "s" \o ToString(k)>>, pub |-> <<alg, "p" \o ToString(k)>>]

\* (*rsa.PrivateKey).Public(), (*ecdsa.PrivateKey).Public(), Ed25519PrivateKey.Pub
Public(km) == km.pub

\* GenKeysRSA / GenKeysECDSA / GenKeysED25519 (rand.Reader): a keypair, or an error
GenKeys(alg, k, fail) ==
    IF fail THEN [key |-> NilKey, err |-> "generation failure"]
    ELSE [key |-> KeyMaterial(alg, k), err |-> ""]

(* ----------------------------- IdentityKey ---------------------------- *)

\* a nil *IdentityKey; a non-nil pointer is <<struct>>
NilPtr == <<>>

\* new(IdentityKey): the zero value
ZeroIdentityKey ==
    [keyType |-> 0, rsa |-> NilKey, ecdsa |-> NilKey, ec25519 |-> NilKey]

\* NewIdentityKey(keytype): the generator's err is assigned and never read
NewIdentityKey(keytype, k, genFail) ==
    LET z == ZeroIdentityKey
    IN  IF keytype = KEYRSA
        THEN LET g == GenKeys("rsa", k, genFail)
             IN  [i |-> <<[z EXCEPT !.keyType = keytype, !.rsa = g.key]>>, err |-> ""]
        ELSE IF keytype = KEYECDSA
        THEN LET g == GenKeys("ecdsa", k, genFail)
             IN  [i |-> <<[z EXCEPT !.keyType = keytype, !.ecdsa = g.key]>>, err |-> ""]
        ELSE IF keytype = KEYEC25519
        THEN LET g == GenKeys("ec25519", k, genFail)
             IN  [i |-> <<[z EXCEPT !.keyType = keytype, !.ec25519 = g.key]>>, err |-> ""]
        ELSE [i |-> NilPtr, err |-> "invalid type"]

\* (*IdentityKey).Type()
Type(i) ==
    IF i.keyType = KEYRSA THEN "ac-rsa"
    ELSE IF i.keyType = KEYECDSA THEN "ac-ecdsa"
    ELSE IF i.keyType = KEYEC25519 THEN "ac-ec25519"
    ELSE ""

(* ------------------------- external conversions ----------------------- *)

\* x509.MarshalPKIXPublicKey
MarshalPKIXPublicKey(pub) == <<"pkix">> \o pub

\* asn1.Marshal of a byte slice
Asn1Marshal(bytes) == <<"asn1">> \o bytes

\* x509.MarshalPKCS1PrivateKey
MarshalPKCS1PrivateKey(km) == <<"pkcs1">> \o km.priv \o km.pub

\* x509.MarshalECPrivateKey
MarshalECPrivateKey(km) == <<"sec1">> \o km.priv \o km.pub

\* acutl.CompressData
CompressData(bin) == <<"z">> \o bin

\* acutl.B64EncodeData
B64EncodeData(bin) == <<"b64">> \o bin

\* AEADEncryptPEMBlock(rand.Reader, header, der, passwd): a pem.Block whose
\* bytes embed the nonce/salt next to the ciphertext
AEADEncryptPEMBlock(nonce, keyHeader, keyDer, passwd) ==
    [Type |-> keyHeader, Bytes |-> <<"aead", nonce, passwd>> \o keyDer]

\* wr.Write(p): one element appended, or nothing when the write fails
Write(wr, p, ok) == IF ok THEN Append(wr, p) ELSE wr

\* pem.Encode(wr, block): the whole armored block, or on a failing sink
\* nothing, or the BEGIN line alone
PemEncode(wr, block, outcome) ==
    IF outcome = "ok" THEN Append(wr, <<"pem", block.Type>> \o block.Bytes)
    ELSE IF outcome = "partial" THEN Append(wr, <<"pem", block.Type>>)
    ELSE wr

(* ------------------------------ encoders ------------------------------ *)

\* what one encoder call did: the error it returned ("" is nil), whether it
\* panicked instead of returning, the material slot it dispatched against,
\* the header it chose, the sink after the call, the plaintext handed to the
\* encryption, and the steps that failed
NoCall ==
    [called |-> FALSE, err |-> "", panic |-> FALSE, slot |-> "none",
     keyHdr |-> <<>>, wr |-> <<>>, plain |-> <<>>, failed |-> {}]

\* the switch of PubToPKIX: slot, header and marshalled public key per keyType
PubDispatch(i) ==
    IF i.keyType = KEYRSA
    THEN [valid |-> TRUE, slot |-> "rsa", key |-> i.rsa, keyHdr |-> <<"ac-rsa">>,
          keyBin |-> MarshalPKIXPublicKey(Public(i.rsa))]
    ELSE IF i.keyType = KEYECDSA
    THEN [valid |-> TRUE, slot |-> "ecdsa", key |-> i.ecdsa, keyHdr |-> <<"ac-ecdsa">>,
          keyBin |-> MarshalPKIXPublicKey(Public(i.ecdsa))]
    ELSE IF i.keyType = KEYEC25519
    THEN [valid |-> TRUE, slot |-> "ec25519", key |-> i.ec25519, keyHdr |-> <<"ac-25519">>,
          keyBin |-> Asn1Marshal(i.ec25519.pub)]
    ELSE [valid |-> FALSE, slot |-> "none", key |-> NilKey, keyHdr |-> <<>>,
          keyBin |-> <<>>]

\* (*IdentityKey).PubToPKIX(wr); env gives the outcome of the marshalling, of
\* the compression and of each of the three writes
PubToPKIX(i, wr, env) ==
    LET d == PubDispatch(i)
        r == [NoCall EXCEPT !.called = TRUE, !.wr = wr, !.slot = d.slot]
    IN  IF ~d.valid THEN [r EXCEPT !.err = "invalid key type"]
        ELSE IF d.key = NilKey THEN [r EXCEPT !.panic = TRUE]
        ELSE IF ~env.marshal
        THEN [r EXCEPT !.err = "marshal failure", !.failed = {"marshal"}]
        ELSE IF ~env.compress
        THEN [r EXCEPT !.err = "compression failure", !.failed = {"compress"}]
        ELSE LET b64pub == B64EncodeData(CompressData(d.keyBin))
                 w1 == Write(wr, d.keyHdr, env.w1)
                 w2 == Write(w1, <<" ">>, env.w2)
                 w3 == Write(w2, b64pub, env.w3)
             IN  [r EXCEPT !.keyHdr = d.keyHdr, !.wr = w3,
                           !.failed = {w \in {"w1", "w2", "w3"} : ~env[w]}]

\* PrivDispatch with the Ed25519 case written as the default case
PrivDispatchNoDefault(i) ==
    IF i.keyType = KEYRSA
    THEN [valid |-> TRUE, slot |-> "rsa", key |-> i.rsa, canFail |-> FALSE,
          keyHeader |-> "RSA PRIVATE KEY", keyDer |-> MarshalPKCS1PrivateKey(i.rsa)]
    ELSE IF i.keyType = KEYECDSA
    THEN [valid |-> TRUE, slot |-> "ecdsa", key |-> i.ecdsa, canFail |-> TRUE,
          keyHeader |-> "ECDSA PRIVATE KEY", keyDer |-> MarshalECPrivateKey(i.ecdsa)]
    ELSE [valid |-> TRUE, slot |-> "ec25519", key |-> i.ec25519, canFail |-> TRUE,
          keyHeader |-> "EC25519 PRIVATE KEY", keyDer |-> Asn1Marshal(i.ec25519.pub)]

\* the switch of PrivToPKIX: slot, armor header and marshalled private key
PrivDispatch(i) ==
    IF i.keyType = KEYRSA
    THEN [valid |-> TRUE, slot |-> "rsa", key |-> i.rsa, canFail |-> FALSE,
          keyHeader |-> "RSA PRIVATE KEY", keyDer |-> MarshalPKCS1PrivateKey(i.rsa)]
    ELSE IF i.keyType = KEYECDSA
    THEN [valid |-> TRUE, slot |-> "ecdsa", key |-> i.ecdsa, canFail |-> TRUE,
          keyHeader |-> "ECDSA PRIVATE KEY", keyDer |-> MarshalECPrivateKey(i.ecdsa)]
    ELSE IF i.keyType = KEYEC25519
    THEN [valid |-> TRUE, slot |-> "ec25519", key |-> i.ec25519, canFail |-> TRUE,
          keyHeader |-> "EC25519 PRIVATE KEY", keyDer |-> Asn1Marshal(i.ec25519.pub)]
    ELSE [valid |-> FALSE, slot |-> "none", key |-> NilKey, canFail |-> FALSE,
          keyHeader |-> "", keyDer |-> <<>>]

\* (*IdentityKey).PrivToPKIX(wr, passwd); env gives the outcome of the
\* marshalling, the nonce drawn and the outcome of the encryption, and the
\* outcome of pem.Encode
PrivToPKIX(i, wr, passwd, env) ==
    LET d == PrivDispatch(i)
        r == [NoCall EXCEPT !.called = TRUE, !.wr = wr, !.slot = d.slot]
    IN  IF ~d.valid THEN [r EXCEPT !.err = "invalid key type"]
        ELSE IF d.key = NilKey THEN [r EXCEPT !.panic = TRUE]
        ELSE IF d.canFail /\ ~env.marshal
        THEN [r EXCEPT !.err = "marshal failure", !.failed = {"marshal"}]
        ELSE IF ~env.encrypt
        THEN [r EXCEPT !.err = "encryption failure", !.failed = {"encrypt"}]
        ELSE LET pemKey == AEADEncryptPEMBlock(env.nonce, d.keyHeader, d.keyDer, passwd)
                 w == PemEncode(wr, pemKey, env.pem)
             IN  [r EXCEPT !.wr = w, !.plain = d.keyDer,
                           !.err = IF env.pem = "ok" THEN "" ELSE "write failure",
                           !.failed = IF env.pem = "ok" THEN {} ELSE {"pem"}]

\* the outcomes the environment can give one PubToPKIX call; a step that is
\* not reached has no outcome of its own (it is listed as succeeding)
PubEnvs ==
    {e \in [marshal : BOOLEAN, compress : BOOLEAN,
            w1 : BOOLEAN, w2 : BOOLEAN, w3 : BOOLEAN] :
        /\ ~e.marshal => e.compress
        /\ ~(e.marshal /\ e.compress) => e.w1 /\ e.w2 /\ e.w3}

\* the outcomes the environment can give one PrivToPKIX call
PrivEnvs ==
    {e \in [marshal : BOOLEAN, encrypt : BOOLEAN, nonce : Nonces,
            pem : {"ok", "fail", "partial"}] :
        /\ ~e.marshal => e.encrypt
        /\ ~(e.marshal /\ e.encrypt) => e.pem = "ok" /\ e.nonce = "n1"}

(* ----------------------------- persistence ---------------------------- *)

\* the two files of the one path prefix used: prefix+".pub" and prefix
NoFiles == [pub |-> <<>>, priv |-> <<>>]

\* os.OpenFile(name, os.O_CREATE|os.O_TRUNC|os.O_WRONLY, perm): the file
\* system after the call
OpenFile(f, name, ok) == IF ok THEN [f EXCEPT ![name] = <<>>] ELSE f

\* what one ToKeyFiles / FromKeyFiles call did: the file system after it, its
\* return values, the two encoder calls, the files it opened, the files it
\* closed, and the nil handles it called Close on (Close on a nil *os.File
\* returns os.ErrInvalid, which the defer drops)
NoRun ==
    [fs |-> NoFiles, i |-> NilPtr, err |-> "", panic |-> FALSE,
     pub |-> NoCall, priv |-> NoCall,
     opened |-> {}, closed |-> {}, closedNil |-> {}]

\* ToKeyFiles with the two Close calls at the end of the function instead of
\* deferred: the early returns skip them
ToKeyFilesNoDefer(i, passwd, f, env) ==
    LET f1 == OpenFile(f, "pub", env.openPub)
        f2 == OpenFile(f1, "priv", env.openPriv)
        p  == PubToPKIX(i, f2.pub, env.pub)
        f3 == [f2 EXCEPT !.pub = p.wr]
        q  == PrivToPKIX(i, f3.priv, passwd, env.priv)
        f4 == [f3 EXCEPT !.priv = q.wr]
        both == [NoRun EXCEPT !.opened = {"pub", "priv"}]
    IN  IF ~env.openPub
        THEN [NoRun EXCEPT !.fs = f1, !.err = "open failure"]
        ELSE IF ~env.openPriv
        THEN [NoRun EXCEPT !.fs = f2, !.err = "open failure", !.opened = {"pub"}]
        ELSE IF p.panic
        THEN [both EXCEPT !.fs = f3, !.panic = TRUE, !.pub = p]
        ELSE IF p.err # ""
        THEN [both EXCEPT !.fs = f3, !.err = p.err, !.pub = p]
        ELSE IF q.panic
        THEN [both EXCEPT !.fs = f4, !.panic = TRUE, !.pub = p, !.priv = q]
        ELSE IF q.err # ""
        THEN [both EXCEPT !.fs = f4, !.err = q.err, !.pub = p, !.priv = q]
        ELSE [both EXCEPT !.fs = f4, !.pub = p, !.priv = q,
                          !.closed = {"pub", "priv"}]

\* (*IdentityKey).ToKeyFiles(prefix, passwd)
ToKeyFiles(i, passwd, f, env) ==
    LET f1 == OpenFile(f, "pub", env.openPub)
        f2 == OpenFile(f1, "priv", env.openPriv)
        p  == PubToPKIX(i, f2.pub, env.pub)
        f3 == [f2 EXCEPT !.pub = p.wr]
        q  == PrivToPKIX(i, f3.priv, passwd, env.priv)
        f4 == [f3 EXCEPT !.priv = q.wr]
        both == [NoRun EXCEPT !.opened = {"pub", "priv"}, !.closed = {"pub", "priv"}]
    IN  IF ~env.openPub
        THEN [NoRun EXCEPT !.fs = f1, !.err = "open failure", !.closedNil = {"pub"}]
        ELSE IF ~env.openPriv
        THEN [NoRun EXCEPT !.fs = f2, !.err = "open failure", !.opened = {"pub"},
                           !.closed = {"pub"}, !.closedNil = {"priv"}]
        ELSE IF p.panic
        THEN [both EXCEPT !.fs = f3, !.panic = TRUE, !.pub = p]
        ELSE IF p.err # ""
        THEN [both EXCEPT !.fs = f3, !.err = p.err, !.pub = p]
        ELSE IF q.panic
        THEN [both EXCEPT !.fs = f4, !.panic = TRUE, !.pub = p, !.priv = q]
        ELSE [both EXCEPT !.fs = f4, !.err = q.err, !.pub = p, !.priv = q]

\* FromKeyFiles with the files opened os.O_RDONLY
FromKeyFilesReadOnly(f, env) ==
    IF ~env.openPub
    THEN [NoRun EXCEPT !.fs = f, !.err = "open failure", !.closedNil = {"pub"}]
    ELSE IF ~env.openPriv
    THEN [NoRun EXCEPT !.fs = f, !.err = "open failure", !.opened = {"pub"},
                       !.closed = {"pub"}, !.closedNil = {"priv"}]
    ELSE [NoRun EXCEPT !.fs = f, !.opened = {"pub", "priv"},
                       !.closed = {"pub", "priv"}]

\* FromKeyFiles(prefix)
FromKeyFiles(f, env) ==
    LET f1 == OpenFile(f, "pub", env.openPub)
        f2 == OpenFile(f1, "priv", env.openPriv)
    IN  IF ~env.openPub
        THEN [NoRun EXCEPT !.fs = f1, !.err = "open failure", !.closedNil = {"pub"}]
        ELSE IF ~env.openPriv
        THEN [NoRun EXCEPT !.fs = f2, !.err = "open failure", !.opened = {"pub"},
                           !.closed = {"pub"}, !.closedNil = {"priv"}]
        ELSE [NoRun EXCEPT !.fs = f2, !.opened = {"pub", "priv"},
                           !.closed = {"pub", "priv"}]

\* the outcomes the environment can give one ToKeyFiles call
FileEnvs ==
    {e \in [openPub : BOOLEAN, openPriv : BOOLEAN, pub : PubEnvs, priv : PrivEnvs] :
        /\ ~e.openPub => e.openPriv
        /\ ~(e.openPub /\ e.openPriv) =>
              e.pub.marshal /\ e.pub.compress /\ e.pub.w1 /\ e.pub.w2 /\ e.pub.w3
        /\ ~(e.pub.marshal /\ e.pub.compress /\ e.openPub /\ e.openPriv)
              => e.priv = [marshal |-> TRUE, encrypt |-> TRUE, nonce |-> "n1", pem |-> "ok"]}

\* the outcomes the environment can give one FromKeyFiles call
OpenEnvs == {e \in [openPub : BOOLEAN, openPriv : BOOLEAN] : ~e.openPub => e.openPriv}

(* ------------------------------- state -------------------------------- *)

\* ident: the identity the caller holds (NilPtr before the first one)
\* fs:    the content of the two key files
\* ret:   the last call: its name, its arguments, what it did and, for
\*        FromKeyFiles, the content of the files it found
NoRet ==
    [op |-> "none", keytype |-> KEYRSA, genErr |-> "", passwd |-> "", tag |-> "",
     found |-> NoFiles, run |-> NoRun]

Init ==
    /\ ident = NilPtr
    /\ fs = NoFiles
    /\ ret = NoRet

\* i, err := NewIdentityKey(keytype); the caller keeps a non-nil i
CallNewIdentityKey ==
    \E keytype \in KeyTypeInputs, k \in Keys, genFail \in BOOLEAN :
        LET r == NewIdentityKey(keytype, k, genFail)
            known == keytype \in {KEYRSA, KEYECDSA, KEYEC25519}
        IN  /\ ident' = IF r.i # NilPtr THEN r.i ELSE ident
            /\ ret' = [NoRet EXCEPT !.op = "NewIdentityKey", !.keytype = keytype,
                          !.genErr = IF known /\ genFail THEN "generation failure" ELSE "",
                          !.run = [NoRun EXCEPT !.fs = fs, !.i = r.i, !.err = r.err]]
            /\ UNCHANGED fs

\* ident.Type()
CallType ==
    /\ ident # NilPtr
    /\ ret' = [NoRet EXCEPT !.op = "Type", !.tag = Type(ident[1]),
                  !.run = [NoRun EXCEPT !.fs = fs]]
    /\ UNCHANGED <<ident, fs>>

\* ident.PubToPKIX(wr) on a fresh in-memory sink
CallPubToPKIX ==
    /\ ident # NilPtr
    /\ \E env \in PubEnvs :
        LET p == PubToPKIX(ident[1], <<>>, env)
        IN  ret' = [NoRet EXCEPT !.op = "PubToPKIX",
                       !.run = [NoRun EXCEPT !.fs = fs, !.err = p.err,
                                             !.panic = p.panic, !.pub = p]]
    /\ UNCHANGED <<ident, fs>>

\* ident.PrivToPKIX(wr, passwd) on a fresh in-memory sink
CallPrivToPKIX ==
    /\ ident # NilPtr
    /\ \E passwd \in Passwords, env \in PrivEnvs :
        LET q == PrivToPKIX(ident[1], <<>>, passwd, env)
        IN  ret' = [NoRet EXCEPT !.op = "PrivToPKIX", !.passwd = passwd,
                       !.run = [NoRun EXCEPT !.fs = fs, !.err = q.err,
                                             !.panic = q.panic, !.priv = q]]
    /\ UNCHANGED <<ident, fs>>

\* ident.ToKeyFiles(prefix, passwd)
CallToKeyFiles ==
    /\ ident # NilPtr
    /\ \E passwd \in Passwords, env \in FileEnvs :
        LET r == ToKeyFiles(ident[1], passwd, fs, env)
        IN  /\ fs' = r.fs
            /\ ret' = [NoRet EXCEPT !.op = "ToKeyFiles", !.passwd = passwd, !.run = r]
    /\ UNCHANGED ident

\* FromKeyFiles(prefix)
CallFromKeyFiles ==
    /\ \E env \in OpenEnvs :
        LET r == FromKeyFiles(fs, env)
        IN  /\ fs' = r.fs
            /\ ret' = [NoRet EXCEPT !.op = "FromKeyFiles", !.found = fs, !.run = r]
    /\ UNCHANGED ident

Next ==
    \/ CallNewIdentityKey
    \/ CallType
    \/ CallPubToPKIX
    \/ CallPrivToPKIX
    \/ CallToKeyFiles
    \/ CallFromKeyFiles

Spec == Init /\ [][Next]_vars

\* Any IdentityKey value the struct type admits (the fields are settable inside
\* the package), with the encoders applied to it
IdentityKeys ==
    [keyType : KeyTypeInputs,
     rsa     : {NilKey} \cup {KeyMaterial("rsa", k) : k \in Keys},
     ecdsa   : {NilKey} \cup {KeyMaterial("ecdsa", k) : k \in Keys},
     ec25519 : {NilKey} \cup {KeyMaterial("ec25519", k) : k \in Keys}]

InitAny ==
    /\ ident \in {<<s>> : s \in IdentityKeys}
    /\ fs = NoFiles
    /\ ret = NoRet

NextAny ==
    \/ CallNewIdentityKey
    \/ CallType
    \/ CallPubToPKIX
    \/ CallPrivToPKIX

SpecAny == InitAny /\ [][NextAny]_vars

\* Construction and persistence alone
NextFiles ==
    \/ CallNewIdentityKey
    \/ CallToKeyFiles
    \/ CallFromKeyFiles

SpecFiles == Init /\ [][NextFiles]_vars

(* ------------------------------ decoding ------------------------------ *)

\* the inverse of a tagged conversion
Strip(tag, x) == IF Len(x) > 0 /\ Head(x) = tag THEN Tail(x) ELSE <<"malformed">>

\* un-marshal of a public key: the PKIX container, or the ASN.1 envelope
UnmarshalPublic(der) ==
    IF Len(der) > 0 /\ Head(der) = "pkix" THEN Strip("pkix", der) ELSE Strip("asn1", der)

\* decode a public record: split on the first space, base64-decode,
\* decompress, un-marshal the second part
DecodePublicRecord(wr) ==
    IF Len(wr) = 3 /\ wr[2] = <<" ">>
    THEN UnmarshalPublic(Strip("z", Strip("b64", wr[3])))
    ELSE <<"malformed">>

\* decrypt an armored block under passwd, with the nonce/salt embedded in it
DecryptPEMBlock(wr, passwd) ==
    LET b == IF Len(wr) = 1 THEN Strip("pem", wr[1]) ELSE <<>>
    IN  IF Len(b) >= 4 /\ b[2] = "aead" /\ b[4] = passwd
        THEN SubSeq(b, 5, Len(b))
        ELSE <<"authentication failure">>

KnownKeyTypes == {KEYRSA, KEYECDSA, KEYEC25519}

\* the material slot keytype selects
Slot(i, keytype) ==
    IF keytype = KEYRSA THEN i.rsa
    ELSE IF keytype = KEYECDSA THEN i.ecdsa
    ELSE i.ec25519

\* the material slots that are populated
Populated(i) ==
    {kt \in KnownKeyTypes : Slot(i, kt) # NilKey}

\* the private key of the populated slot in its algorithm's binary container
MarshalledPrivateKey(i) ==
    IF i.keyType = KEYRSA THEN MarshalPKCS1PrivateKey(i.rsa)
    ELSE IF i.keyType = KEYECDSA THEN MarshalECPrivateKey(i.ecdsa)
    ELSE Asn1Marshal(i.ec25519.priv)

Returned(op) == ret.op = op /\ ~ret.run.panic

(* ------------------------------- claims ------------------------------- *)

\* C1: NewIdentityKey returns either a non-nil IdentityKey whose slot for the
\* requested keytype is populated together with a nil error, or a nil
\* IdentityKey together with a non-nil error; whenever the generator returned
\* an error, NewIdentityKey returns a non-nil error and no entity.
C1_ConstructionAtomic ==
    Returned("NewIdentityKey") =>
        /\ \/ /\ ret.run.i # NilPtr
              /\ ret.run.err = ""
              /\ ret.keytype \in KnownKeyTypes
              /\ Slot(ret.run.i[1], ret.keytype) # NilKey
           \/ /\ ret.run.i = NilPtr
              /\ ret.run.err # ""
        /\ ret.genErr # "" => ret.run.i = NilPtr /\ ret.run.err # ""

\* C2: in every reachable state the IdentityKey handed to the caller has
\* exactly one material slot populated, the one keyType selects (no encoder
\* call changes it: the state after any sequence of calls is covered).
C2_ExactlyOneSlot ==
    ident # NilPtr =>
        /\ ident[1].keyType \in KnownKeyTypes
        /\ Populated(ident[1]) = {ident[1].keyType}

\* C3: the header token PubToPKIX writes before the separating space equals
\* <<Type()>> of the same identity, for each of the three algorithms.
C3_HeaderIsType ==
    (ret.run.pub.called /\ ~ret.run.panic /\ ret.run.pub.keyHdr # <<>>
        /\ "w1" \notin ret.run.pub.failed)
    => /\ ret.run.pub.keyHdr = <<Type(ident[1])>>
       /\ Head(ret.run.pub.wr) = <<Type(ident[1])>>

\* C4: when PubToPKIX returns, its sink (empty before the call) has received
\* either nothing or the complete record: header, one space, encoded key.
C4_NoPartialOutput ==
    (ret.run.pub.called /\ ~ret.run.panic) =>
        LET wr == ret.run.pub.wr
        IN  \/ wr = <<>>
            \/ /\ Len(wr) = 3
               /\ wr[1] = ret.run.pub.keyHdr
               /\ wr[2] = <<" ">>
               /\ Head(wr[3]) = "b64"

\* C5: if the marshalling, the compression or any write fails, PubToPKIX
\* returns a non-nil error, and ToKeyFiles returns a non-nil error whenever
\* a step of PubToPKIX or PrivToPKIX failed.
C5_FailuresSurfaced ==
    ((Returned("PubToPKIX") \/ Returned("ToKeyFiles"))
        /\ ret.run.pub.failed \cup ret.run.priv.failed # {})
    => ret.run.err # ""

\* C6: the plaintext PrivToPKIX encrypts, which decrypting the emitted block
\* with the same password recovers, is the marshalled private key of the
\* populated slot, secret half included, for all three algorithms.
C6_PrivateRoundTrip ==
    (ret.run.priv.called /\ ~ret.run.panic /\ ret.run.priv.err = "") =>
        /\ ret.run.priv.plain = MarshalledPrivateKey(ident[1])
        /\ DecryptPEMBlock(ret.run.priv.wr, ret.passwd) = MarshalledPrivateKey(ident[1])

\* C7: when PubToPKIX succeeds (returns a nil error), decoding the emitted
\* record (split on the first space, base64-decode, decompress, un-marshal the
\* second part) yields the public half of the identity's key, for every
\* algorithm and key.
C7_PublicRoundTrip ==
    (ret.run.pub.called /\ ~ret.run.pub.panic /\ ret.run.pub.err = "") =>
        DecodePublicRecord(ret.run.pub.wr) = Public(Slot(ident[1], ident[1].keyType))

\* The part of the round trip that holds: a call in which no write failed
\* either emitted a record that decodes to the public half
RoundTripOfCompleteRecord ==
    (ret.run.pub.called /\ ~ret.run.pub.panic /\ ret.run.pub.err = ""
        /\ ret.run.pub.failed = {})
    => DecodePublicRecord(ret.run.pub.wr) = Public(Slot(ident[1], ident[1].keyType))

\* C8: for an IdentityKey whose keyType is none of KEYRSA, KEYECDSA and
\* KEYEC25519, PubToPKIX and PrivToPKIX return a non-nil error, write nothing
\* to the sink and dispatch against no material slot.
C8_UnknownTagRejected ==
    (ident # NilPtr /\ ident[1].keyType \notin KnownKeyTypes) =>
        \A c \in {ret.run.pub, ret.run.priv} :
            c.called =>
                /\ ~c.panic
                /\ c.err # ""
                /\ c.wr = <<>>
                /\ c.slot = "none"
                /\ c.plain = <<>>

\* C8 witness: PrivToPKIX was called on an identity of unknown keyType whose
\* three slots are all populated, and returned its error
C8_Witness ==
    /\ Returned("PrivToPKIX")
    /\ ident[1].keyType \notin KnownKeyTypes
    /\ Populated(ident[1]) = KnownKeyTypes
    /\ ret.run.priv.called
    /\ ret.run.err = "invalid key type"

C10_SinksReleased ==
    ret.op = "ToKeyFiles" =>
        /\ ret.run.closed = ret.run.opened
        /\ ret.run.closedNil # {} => ~ret.run.panic /\ ret.run.err = "open failure"
        /\ ret.run.closedNil \cap ret.run.opened = {}
        /\ ret.run.priv.called =>
               ret.run.pub.called /\ ~ret.run.pub.panic /\ ret.run.pub.err = ""
        /\ ret.run.priv.wr # <<>> =>
               ret.run.pub.called /\ ~ret.run.pub.panic /\ ret.run.pub.err = ""

\* C10 witness: the second open failed; the public file was closed and the
\* Close on the nil private handle did not abort the call
C10_Witness ==
    /\ Returned("ToKeyFiles")
    /\ ret.run.opened = {"pub"}
    /\ ret.run.closed = {"pub"}
    /\ ret.run.closedNil = {"priv"}
    /\ ret.run.err = "open failure"

====
